---------------------------- MODULE Spec2Model ----------------------------
(***************************************************************************)
(* A model of mast/Registry_Search.ipynb: the helper registry_tap_query,   *)
(* the six query cells that call it, and the Registry TAP service the      *)
(* helper posts to.  The service is modelled by what the notebook's ADQL   *)
(* means on a registry of resource, capability and interface rows; where   *)
(* ADQL leaves a choice to the service (the scan order behind "top 1", the *)
(* letter case of LIKE, where NULL sorts) the model follows the outputs    *)
(* recorded in the notebook.                                               *)
(***************************************************************************)
EXTENDS Integers, Sequences, FiniteSets, TLC

VARIABLES
    registry,       \* the rows of rr.resource, rr.capability, rr.interface
    cell,           \* index in Queries of the query cell being executed
    pc,             \* position inside that cell
    query,          \* notebook global `query`
    results,        \* notebook global `results`
    tap_params,     \* registry_tap_query local
    response,       \* registry_tap_query local `results` (the Response)
    astropy_table,  \* registry_tap_query local
    returned,       \* the value of the call expression, until the cell stores it
    sent,           \* every request handed to requests.post, in order
    outstanding,    \* requests posted and not yet answered
    out,            \* what each cell has displayed, by cell index
    calls,          \* the finished calls of registry_tap_query, in order
    reruns          \* how many times the user re-executed a cell

vars == <<registry, cell, pc, query, results, tap_params, response,
          astropy_table, returned, sent, outstanding, out, calls, reruns>>

(***************************************************************************)
(* Bounds of the model.                                                    *)
(***************************************************************************)
MaxResources == 2
MaxReruns == 1

(***************************************************************************)
(* Strings.  A string of the registry is an atomic value; Chars gives its  *)
(* characters for the operations that look inside it (LIKE, ORDER BY).     *)
(***************************************************************************)
NULL == "<NULL>"

None == [type |-> "None"]

Chars(s) ==
  CASE s = "" -> <<>>
    [] s = "ivo://cxc.harvard.edu/csc" ->
       <<"i", "v", "o", ":", "/", "/", "c", "x", "c", ".", "h", "a", "r", "v", "a", "r", "d", ".", "e", "d", "u", "/", "c", "s", "c">>
    [] s = "ivo://nasa.heasarc/chanmaster" ->
       <<"i", "v", "o", ":", "/", "/", "n", "a", "s", "a", ".", "h", "e", "a", "s", "a", "r", "c", "/", "c", "h", "a", "n", "m", "a", "s", "t", "e", "r">>
    [] s = "ivo://mast.stsci/siap/uit" ->
       <<"i", "v", "o", ":", "/", "/", "m", "a", "s", "t", ".", "s", "t", "s", "c", "i", "/", "s", "i", "a", "p", "/", "u", "i", "t">>
    [] s = "ivo://archive.stsci.edu/cdfs" ->
       <<"i", "v", "o", ":", "/", "/", "a", "r", "c", "h", "i", "v", "e", ".", "s", "t", "s", "c", "i", ".", "e", "d", "u", "/", "c", "d", "f", "s">>
    [] s = "Chandra Source Catalog" ->
       <<"C", "h", "a", "n", "d", "r", "a", " ", "S", "o", "u", "r", "c", "e", " ", "C", "a", "t", "a", "l", "o", "g">>
    [] s = "Chandra Observations" ->
       <<"C", "h", "a", "n", "d", "r", "a", " ", "O", "b", "s", "e", "r", "v", "a", "t", "i", "o", "n", "s">>
    [] s = "Ultraviolet Imaging Telescope (UIT)" ->
       <<"U", "l", "t", "r", "a", "v", "i", "o", "l", "e", "t", " ", "I", "m", "a", "g", "i", "n", "g", " ", "T", "e", "l", "e", "s", "c", "o", "p", "e", " ", "(", "U", "I", "T", ")">>
    [] s = "chandra deep field south" ->
       <<"c", "h", "a", "n", "d", "r", "a", " ", "d", "e", "e", "p", " ", "f", "i", "e", "l", "d", " ", "s", "o", "u", "t", "h">>
    [] s = "ivo://nasa.heasarc/skyview/galex" ->
       <<"i", "v", "o", ":", "/", "/", "n", "a", "s", "a", ".", "h", "e", "a", "s", "a", "r", "c", "/", "s", "k", "y", "v", "i", "e", "w", "/", "g", "a", "l", "e", "x">>
    [] s = "Galaxy Evolution Explorer" ->
       <<"G", "a", "l", "a", "x", "y", " ", "E", "v", "o", "l", "u", "t", "i", "o", "n", " ", "E", "x", "p", "l", "o", "r", "e", "r">>
    [] s = "x-ray" -> <<"x", "-", "r", "a", "y">>
    [] s = "uv" -> <<"u", "v">>
    [] s = "euv#uv" -> <<"e", "u", "v", "#", "u", "v">>
    [] s = "chandra" -> <<"c", "h", "a", "n", "d", "r", "a">>
    [] s = "Chandra" -> <<"C", "h", "a", "n", "d", "r", "a">>
    [] s = "harvard" -> <<"h", "a", "r", "v", "a", "r", "d">>
    [] s = "stsci" -> <<"s", "t", "s", "c", "i">>

\* The characters in ASCII order; a character's code is its place here.
AsciiOrder ==
  <<" ", "#", "(", ")", "-", ".", "/", ":",
    "A", "B", "C", "D", "E", "F", "G", "H", "I", "J", "K", "L", "M",
    "N", "O", "P", "Q", "R", "S", "T", "U", "V", "W", "X", "Y", "Z",
    "a", "b", "c", "d", "e", "f", "g", "h", "i", "j", "k", "l", "m",
    "n", "o", "p", "q", "r", "s", "t", "u", "v", "w", "x", "y", "z">>

Code(c) == CHOOSE i \in 1..Len(AsciiOrder) : AsciiOrder[i] = c

UpperFirst == Code("A")

UpperLast == Code("Z")

\* The lower-case letter of an upper-case one, every other character itself.
ToLower(c) ==
  IF Code(c) >= UpperFirst /\ Code(c) <= UpperLast
  THEN AsciiOrder[Code(c) + (Code("a") - UpperFirst)]
  ELSE c

LowerChars(s) == [i \in 1..Len(Chars(s)) |-> ToLower(Chars(s)[i])]

\* p occurs in t as a run of consecutive elements.
Occurs(p, t) ==
  \E i \in 1..(Len(t) - Len(p) + 1) : SubSeq(t, i, i + Len(p) - 1) = p

\* Mutant of Like: a LIKE that respects letter case.
LikeCaseSensitive(value, word) ==
  value # NULL /\ Occurs(Chars(word), Chars(value))

(***************************************************************************)
(* value LIKE '%word%' as the service evaluates it.  A NULL matches        *)
(* nothing.  Letter case is ignored: the recorded answer to                *)
(* "res_title like '%chandra%'" holds the titles 'GOODS Chandra ACIS ...'  *)
(* and 'Chandra Source Catalog'.                                           *)
(***************************************************************************)
Like(value, word) ==
  value # NULL /\ Occurs(LowerChars(word), LowerChars(value))

\* a sorts strictly before b under ORDER BY; NULL sorts first.
RECURSIVE LexLess(_, _)
LexLess(a, b) ==
  IF b = <<>> THEN FALSE
  ELSE IF a = <<>> THEN TRUE
  ELSE IF Code(Head(a)) # Code(Head(b)) THEN Code(Head(a)) < Code(Head(b))
  ELSE LexLess(Tail(a), Tail(b))

OrderLess(a, b) ==
  IF a = NULL \/ b = NULL
  THEN a = NULL /\ b # NULL
  ELSE LexLess(LowerChars(a), LowerChars(b))

\* The elements of the finite set S as a sequence ascending under OrderLess.
RECURSIVE SortAscending(_)
SortAscending(S) ==
  IF S = {} THEN <<>>
  ELSE LET m == CHOOSE x \in S : \A y \in S \ {x} : OrderLess(x, y)
       IN  <<m>> \o SortAscending(S \ {m})

(***************************************************************************)
(* The registry.  A row is a record keyed by column name.  A registration  *)
(* is one resource with its capabilities and their interfaces; the         *)
(* candidates follow the notebook's recorded outputs, with a lower-case    *)
(* title, missing values and a capability without interface added.         *)
(***************************************************************************)
ResourceColumns ==
  <<"ivoid", "content_type", "waveband", "short_name", "res_title",
    "res_description">>

RegCsc ==
  [resource |->
     [ivoid |-> "ivo://cxc.harvard.edu/csc", content_type |-> "catalog",
      waveband |-> "x-ray", short_name |-> "CSC",
      res_title |-> "Chandra Source Catalog",
      res_description |-> "The Chandra X-ray Observatory"],
   capability |->
     <<[ivoid |-> "ivo://cxc.harvard.edu/csc", cap_index |-> 1,
        cap_type |-> "conesearch",
        standard_id |-> "ivo://ivoa.net/std/conesearch"],
       [ivoid |-> "ivo://cxc.harvard.edu/csc", cap_index |-> 2,
        cap_type |-> "simpleimageaccess",
        standard_id |-> "ivo://ivoa.net/std/sia"]>>,
   interface |->
     <<[ivoid |-> "ivo://cxc.harvard.edu/csc", cap_index |-> 1,
        intf_index |-> 1,
        access_url |-> "http://cda.harvard.edu/cscvo/coneSearch?"],
       [ivoid |-> "ivo://cxc.harvard.edu/csc", cap_index |-> 2,
        intf_index |-> 1,
        access_url |-> "http://cda.harvard.edu/cscsiap/queryImages?"],
       [ivoid |-> "ivo://cxc.harvard.edu/csc", cap_index |-> 2,
        intf_index |-> 2,
        access_url |-> "http://cda.harvard.edu/cxcsiap/queryImages?"]>>]

RegChanmaster ==
  [resource |->
     [ivoid |-> "ivo://nasa.heasarc/chanmaster", content_type |-> "catalog",
      waveband |-> "x-ray", short_name |-> NULL,
      res_title |-> "Chandra Observations",
      res_description |-> "Chandra observation log"],
   capability |->
     <<[ivoid |-> "ivo://nasa.heasarc/chanmaster", cap_index |-> 1,
        cap_type |-> "simpleimageaccess",
        standard_id |-> "ivo://ivoa.net/std/sia"]>>,
   interface |->
     <<[ivoid |-> "ivo://nasa.heasarc/chanmaster", cap_index |-> 1,
        intf_index |-> 1,
        access_url |-> "https://heasarc.gsfc.nasa.gov/xamin/vo/sia?table=chanmaster&"]>>]

RegUit ==
  [resource |->
     [ivoid |-> "ivo://mast.stsci/siap/uit", content_type |-> "archive",
      waveband |-> "euv#uv", short_name |-> "UIT",
      res_title |-> "Ultraviolet Imaging Telescope (UIT)",
      res_description |-> NULL],
   capability |->
     <<[ivoid |-> "ivo://mast.stsci/siap/uit", cap_index |-> 1,
        cap_type |-> "simpleimageaccess",
        standard_id |-> "ivo://ivoa.net/std/sia"]>>,
   interface |->
     <<[ivoid |-> "ivo://mast.stsci/siap/uit", cap_index |-> 1,
        intf_index |-> 1,
        access_url |-> "http://archive.stsci.edu/siap/search.php?id=UIT&"]>>]

RegCdfs ==
  [resource |->
     [ivoid |-> "ivo://archive.stsci.edu/cdfs", content_type |-> NULL,
      waveband |-> NULL, short_name |-> "CDFS",
      res_title |-> "chandra deep field south",
      res_description |-> "deep field images"],
   capability |->
     <<[ivoid |-> "ivo://archive.stsci.edu/cdfs", cap_index |-> 1,
        cap_type |-> "simpleimageaccess",
        standard_id |-> NULL]>>,
   interface |->
     <<[ivoid |-> "ivo://archive.stsci.edu/cdfs", cap_index |-> 1,
        intf_index |-> 1,
        access_url |-> "http://archive.stsci.edu/siap/search.php?id=cdfs&"]>>]

RegGalex ==
  [resource |->
     [ivoid |-> "ivo://nasa.heasarc/skyview/galex", content_type |-> "survey",
      waveband |-> "uv", short_name |-> "GALEX",
      res_title |-> "Galaxy Evolution Explorer",
      res_description |-> "GALEX all-sky survey"],
   capability |->
     <<[ivoid |-> "ivo://nasa.heasarc/skyview/galex", cap_index |-> 1,
        cap_type |-> "simpleimageaccess",
        standard_id |-> "ivo://ivoa.net/std/sia"],
       [ivoid |-> "ivo://nasa.heasarc/skyview/galex", cap_index |-> 2,
        cap_type |-> "tableaccess",
        standard_id |-> "ivo://ivoa.net/std/tap"]>>,
   interface |->
     <<[ivoid |-> "ivo://nasa.heasarc/skyview/galex", cap_index |-> 1,
        intf_index |-> 1,
        access_url |-> "https://skyview.gsfc.nasa.gov/cgi-bin/vo/sia.pl?survey=galex&"]>>]

Registrations == {RegCsc, RegChanmaster, RegUit, RegCdfs, RegGalex}

Range(s) == {s[i] : i \in 1..Len(s)}

RECURSIVE Flatten(_)
Flatten(ss) == IF ss = <<>> THEN <<>> ELSE Head(ss) \o Flatten(Tail(ss))

\* The three tables holding the registrations regs, in that order.
RegistryOf(regs) ==
  [resource |-> [k \in 1..Len(regs) |-> regs[k].resource],
   capability |-> Flatten([k \in 1..Len(regs) |-> regs[k].capability]),
   interface |-> Flatten([k \in 1..Len(regs) |-> regs[k].interface])]

\* The registries of at most MaxResources distinct resources, in any order.
Registries ==
  {RegistryOf(regs) :
     regs \in {t \in UNION {[1..n -> Registrations] : n \in 0..MaxResources} :
                 \A i, j \in 1..Len(t) : i # j => t[i] # t[j]}}

(***************************************************************************)
(* ADQL, as far as the notebook's six queries use it.                      *)
(***************************************************************************)
\* The row that carries the columns of both r and s.
MergeRows(r, s) ==
  [c \in DOMAIN r \cup DOMAIN s |-> IF c \in DOMAIN r THEN r[c] ELSE s[c]]

ColumnType(c) ==
  IF c = "cap_index" THEN "short" ELSE IF c = "COUNT" THEN "int" ELSE "char"

\* The integer columns of the model are keys and counts, which are never NULL.
IsNull(r, c) == ColumnType(c) = "char" /\ r[c] = NULL

\* Mutant of JoinMatch: the join is made on ivoid alone.
JoinMatchIvoidOnly(r, s) == r.ivoid = s.ivoid

\* r and s agree, with values that are not NULL, on every column they share.
JoinMatch(r, s) ==
  \A c \in DOMAIN r \cap DOMAIN s : ~IsNull(r, c) /\ r[c] = s[c]

RECURSIVE NaturalJoin(_, _)
NaturalJoin(R, S) ==
  IF R = <<>> THEN <<>>
  ELSE LET m == SelectSeq(S, LAMBDA s : JoinMatch(Head(R), s))
       IN  [k \in 1..Len(m) |-> MergeRows(Head(R), m[k])]
             \o NaturalJoin(Tail(R), S)

\* rr.resource res natural join rr.capability cap natural join rr.interface int
ResCapInt(reg) ==
  NaturalJoin(NaturalJoin(reg.resource, reg.capability), reg.interface)

Top(n, R) == SubSeq(R, 1, IF Len(R) < n THEN Len(R) ELSE n)

Fields(cols) ==
  [i \in 1..Len(cols) |-> [name |-> cols[i], datatype |-> ColumnType(cols[i])]]

\* select cols from R
Select(cols, R) ==
  [fields |-> Fields(cols),
   rows |-> [k \in 1..Len(R) |-> [i \in 1..Len(cols) |-> R[k][cols[i]]]]]

\* Mutant of CountColumn: count(*), every row of the group.
CountRows(R, column) == Len(R)

\* count(column) over a group: the rows whose column is not NULL.
CountColumn(R, column) ==
  Cardinality({k \in 1..Len(R) : ~IsNull(R[k], column)})

\* select column, count(column) from R group by column order by column
GroupCountOrdered(R, column) ==
  LET groups == SortAscending({R[k][column] : k \in 1..Len(R)})
      Group(v) == SelectSeq(R, LAMBDA r : r[column] = v)
  IN  [fields |-> Fields(<<column, "COUNT">>),
       rows |-> [g \in 1..Len(groups) |->
                   <<groups[g], CountColumn(Group(groups[g]), column)>>]]

(***************************************************************************)
(* The query texts of the six query cells.                                 *)
(***************************************************************************)
FirstResourceQuery ==
  "\n    select top 1 \n    ivoid, content_type, waveband, short_name, res_title, res_description\n    from rr.resource\n"

CapabilityQuery ==
  "\n    select cap.cap_index, cap.cap_type, cap.standard_id, int.access_url from rr.resource res \n    natural join rr.capability cap\n    natural join rr.interface int\n    where res.ivoid = 'ivo://cxc.harvard.edu/csc'\n"

ChandraQuery ==
  "\n    select res.res_title, res.ivoid, cap.cap_type, int.access_url from rr.resource res \n    natural join rr.capability cap\n    natural join rr.interface int\n    where \n    res.res_title like '%chandra%'\n    and cap.cap_type = 'simpleimageaccess'\n"

HarvardQuery ==
  "\n    select res.res_title, res.ivoid, cap.cap_type, int.access_url from rr.resource res \n    natural join rr.capability cap\n    natural join rr.interface int\n    where \n    res.res_title like '%chandra%'\n    and cap.cap_type = 'simpleimageaccess'\n    and res.ivoid like '%harvard%'\n"

WavebandQuery ==
  "\n    select waveband, count(waveband) from rr.resource\n    group by waveband\n    order by waveband\n"

UvStsciQuery ==
  "\n    select res.res_title, res.ivoid, cap.cap_type, int.access_url from rr.resource res \n    natural join rr.capability cap\n    natural join rr.interface int\n    where \n    cap.cap_type = 'simpleimageaccess'\n    and res.waveband like '%uv%'\n    and res.ivoid like '%stsci%'\n"

\* The query cells in notebook order.
Queries ==
  <<FirstResourceQuery, CapabilityQuery, ChandraQuery, HarvardQuery,
    WavebandQuery, UvStsciQuery>>

NumCells == Len(Queries)

\* The ivoid the capability cell filters on.
CapabilityQueryIvoid == "ivo://cxc.harvard.edu/csc"

(***************************************************************************)
(* What each query selects from a registry.                                *)
(***************************************************************************)
FirstResourceRows(reg) == Top(1, reg.resource)

CapabilityRows(reg) ==
  SelectSeq(ResCapInt(reg), LAMBDA r : r.ivoid = CapabilityQueryIvoid)

ChandraRows(reg) ==
  SelectSeq(ResCapInt(reg),
            LAMBDA r : Like(r.res_title, "chandra")
                       /\ r.cap_type = "simpleimageaccess")

\* Mutant of HarvardRows: the condition on cap_type is left out.
HarvardRowsAnyCapability(reg) ==
  SelectSeq(ResCapInt(reg),
            LAMBDA r : Like(r.res_title, "chandra") /\ Like(r.ivoid, "harvard"))

HarvardRows(reg) ==
  SelectSeq(ResCapInt(reg),
            LAMBDA r : Like(r.res_title, "chandra")
                       /\ r.cap_type = "simpleimageaccess"
                       /\ Like(r.ivoid, "harvard"))

\* Mutant of UvStsciRows: the condition on the ivoid is left out.
UvRowsAnyPublisher(reg) ==
  SelectSeq(ResCapInt(reg),
            LAMBDA r : r.cap_type = "simpleimageaccess"
                       /\ Like(r.waveband, "uv"))

UvStsciRows(reg) ==
  SelectSeq(ResCapInt(reg),
            LAMBDA r : r.cap_type = "simpleimageaccess"
                       /\ Like(r.waveband, "uv")
                       /\ Like(r.ivoid, "stsci"))

ServiceColumns == <<"res_title", "ivoid", "cap_type", "access_url">>

CapabilityColumns == <<"cap_index", "cap_type", "standard_id", "access_url">>

\* The result table of query text q on registry reg; None when the service
\* cannot run the text.
EvalQuery(q, reg) ==
  CASE q = FirstResourceQuery -> Select(ResourceColumns, FirstResourceRows(reg))
    [] q = CapabilityQuery -> Select(CapabilityColumns, CapabilityRows(reg))
    [] q = ChandraQuery -> Select(ServiceColumns, ChandraRows(reg))
    [] q = HarvardQuery -> Select(ServiceColumns, HarvardRows(reg))
    [] q = WavebandQuery -> GroupCountOrdered(reg.resource, "waveband")
    [] q = UvStsciQuery -> Select(ServiceColumns, UvStsciRows(reg))
    [] OTHER -> None

(***************************************************************************)
(* VOTABLE.  A response body is a sequence of text tokens: the format      *)
(* mark, a name and a datatype for each FIELD, the TABLEDATA mark and then *)
(* the cells row by row.  A NULL is written as the empty text and an       *)
(* integer in decimal.                                                     *)
(***************************************************************************)
Digits == <<"0", "1", "2", "3", "4", "5", "6", "7", "8", "9">>

IntToText(n) == Digits[n + 1]

TextToInt(s) == (CHOOSE d \in 1..Len(Digits) : Digits[d] = s) - 1

CellText(datatype, v) ==
  IF datatype = "char" THEN (IF v = NULL THEN "" ELSE v) ELSE IntToText(v)

VOTableDocument(result) ==
  <<"VOTABLE">>
    \o Flatten([i \in 1..Len(result.fields) |->
                  <<result.fields[i].name, result.fields[i].datatype>>])
    \o <<"TABLEDATA">>
    \o Flatten([k \in 1..Len(result.rows) |->
                  [i \in 1..Len(result.fields) |->
                     CellText(result.fields[i].datatype, result.rows[k][i])]])

\* What the service answers when it cannot run the query text.
ErrorDocument == <<"VOTABLE", "INFO", "QUERY_STATUS", "ERROR">>

\* What a failing front end answers instead of the service.
ErrorPage == <<"<html>", "Server Error", "</html>">>

\* The body the service answers query text q with.
ServiceBody(q, reg) ==
  IF EvalQuery(q, reg) = None THEN ErrorDocument
  ELSE VOTableDocument(EvalQuery(q, reg))

(***************************************************************************)
(* astropy's Table.read on the response bytes.                             *)
(***************************************************************************)
TableDataAt(content) ==
  CHOOSE k \in 1..Len(content) :
    content[k] = "TABLEDATA" /\ \A j \in 1..(k - 1) : content[j] # "TABLEDATA"

NumFields(content) == (TableDataAt(content) - 2) \div 2

\* The bytes are a VOTABLE holding one table; Table.read raises otherwise.
CanRead(content) ==
  /\ Len(content) >= 1
  /\ content[1] = "VOTABLE"
  /\ \E k \in 1..Len(content) : content[k] = "TABLEDATA"
  /\ (TableDataAt(content) - 2) % 2 = 0
  /\ NumFields(content) >= 1
  /\ (Len(content) - TableDataAt(content)) % NumFields(content) = 0

\* A char cell is read as a bytes object, an integer cell as a number.
CellValue(datatype, text) ==
  IF datatype = "char" THEN [bytes |-> text] ELSE [int |-> TextToInt(text)]

\* Mutant of TableRead: the rows read are added to those the notebook holds.
TableReadAppending(content) ==
  LET n == NumFields(content)
      at == TableDataAt(content)
  IN  [type |-> "Table",
       colnames |-> [i \in 1..n |-> content[2 * i]],
       rows |-> (IF results = None THEN <<>> ELSE results.rows)
                  \o [k \in 1..((Len(content) - at) \div n) |->
                        [i \in 1..n |->
                           CellValue(content[2 * i + 1],
                                     content[at + (k - 1) * n + i])]]]

TableRead(content) ==
  LET n == NumFields(content)
      at == TableDataAt(content)
  IN  [type |-> "Table",
       colnames |-> [i \in 1..n |-> content[2 * i]],
       rows |-> [k \in 1..((Len(content) - at) \div n) |->
                   [i \in 1..n |->
                      CellValue(content[2 * i + 1],
                                content[at + (k - 1) * n + i])]]]

(***************************************************************************)
(* registry_tap_query.                                                     *)
(***************************************************************************)
registry_tap_url == "https://vao.stsci.edu/RegTAP/TapService.aspx/sync"

\* q.strip(): the text without its leading and trailing white space.
StripText(q) ==
  IF q = FirstResourceQuery
  THEN "select top 1 \n    ivoid, content_type, waveband, short_name, res_title, res_description\n    from rr.resource"
  ELSE q

\* Mutant of TapParams: the query is trimmed before it is sent.
TapParamsStripped(q) ==
  [request |-> "doQuery", lang |-> "ADQL", query |-> StripText(q)]

TapParams(q) == [request |-> "doQuery", lang |-> "ADQL", query |-> q]

\* requests.post(registry_tap_url, data=tap_params)
PostRequest(params) == [url |-> registry_tap_url, data |-> params]

\* The record of a finished call.
CallRecord(outcome, result) ==
  [query |-> tap_params.query,
   content |-> IF response = None THEN <<>> ELSE response.content,
   outcome |-> outcome,
   returned |-> result]

(***************************************************************************)
(* What the cells display.                                                 *)
(***************************************************************************)
Separator ==
  "================================================================================="

\* str(b, 'utf-8')
Utf8Decode(b) == b.bytes

\* '**{}**: {}'.format(name, value), shown as Markdown
MarkdownLine(name, value) == [markdown |-> <<"**", name, "**: ", value>>]

\* Mutant of RowDisplay: the print is inside the inner loop.
RowDisplaySeparatorInLoop(colnames, row) ==
  Flatten([i \in 1..Len(colnames) |->
             <<MarkdownLine(colnames[i], Utf8Decode(row[i])),
               [stdout |-> Separator]>>])

\* The inner loop and the print of the first-resource cell, for one row.
RowDisplay(colnames, row) ==
  [i \in 1..Len(colnames) |-> MarkdownLine(colnames[i], Utf8Decode(row[i]))]
    \o <<[stdout |-> Separator]>>

\* for row in results: ...
RowsDisplay(table) ==
  Flatten([k \in 1..Len(table.rows) |-> RowDisplay(table.colnames, table.rows[k])])

\* The value of a cell's last expression, shown as the cell's result.
ExecuteResult(table) == <<[execute_result |-> table]>>

CellDisplay(c, table) ==
  IF c = 1 THEN RowsDisplay(table) ELSE ExecuteResult(table)

(***************************************************************************)
(* The notebook.                                                           *)
(***************************************************************************)
Init ==
  /\ registry \in Registries
  /\ cell = 1
  /\ pc = "assign"
  /\ query = None
  /\ results = None
  /\ tap_params = None
  /\ response = None
  /\ astropy_table = None
  /\ returned = None
  /\ sent = <<>>
  /\ outstanding = 0
  /\ out = [c \in 1..NumCells |-> <<>>]
  /\ calls = <<>>
  /\ reruns = 0

\* query = """..."""
AssignQuery ==
  /\ pc = "assign"
  /\ query' = Queries[cell]
  /\ out' = [out EXCEPT ![cell] = <<>>]
  /\ pc' = "call"
  /\ UNCHANGED <<registry, returned, cell, results, tap_params, response, astropy_table,
                 sent, outstanding, calls, reruns>>

\* registry_tap_query(query) is entered and builds tap_params.
BuildParams ==
  /\ pc = "call"
  /\ tap_params' = TapParams(query)
  /\ pc' = "post"
  /\ UNCHANGED <<registry, returned, cell, query, results, response, astropy_table,
                 sent, outstanding, out, calls, reruns>>

\* Mutant of Post: a request already sent once is answered from a cache.
PostUnlessSent ==
  /\ pc = "post"
  /\ sent' = IF \E i \in 1..Len(sent) : sent[i] = PostRequest(tap_params)
             THEN sent
             ELSE Append(sent, PostRequest(tap_params))
  /\ outstanding' = outstanding + 1
  /\ pc' = "wait"
  /\ UNCHANGED <<registry, returned, cell, query, results, tap_params, response,
                 astropy_table, out, calls, reruns>>

\* requests.post sends the request.
Post ==
  /\ pc = "post"
  /\ sent' = Append(sent, PostRequest(tap_params))
  /\ outstanding' = outstanding + 1
  /\ pc' = "wait"
  /\ UNCHANGED <<registry, returned, cell, query, results, tap_params, response,
                 astropy_table, out, calls, reruns>>

\* Mutant of Respond: the function's `results` is the notebook's global.
RespondIntoGlobal ==
  /\ pc = "wait"
  /\ \E body \in {ServiceBody(sent[Len(sent)].data.query, registry), ErrorPage} :
       /\ response' = [content |-> body]
       /\ results' = [content |-> body]
  /\ outstanding' = outstanding - 1
  /\ pc' = "read"
  /\ UNCHANGED <<registry, returned, cell, query, tap_params, astropy_table,
                 sent, out, calls, reruns>>

\* requests.post returns the Response: the service's answer, or the page of
\* a failing front end (no status is checked).
Respond ==
  /\ pc = "wait"
  /\ \E body \in {ServiceBody(sent[Len(sent)].data.query, registry), ErrorPage} :
       response' = [content |-> body]
  /\ outstanding' = outstanding - 1
  /\ pc' = "read"
  /\ UNCHANGED <<registry, returned, cell, query, results, tap_params, astropy_table,
                 sent, out, calls, reruns>>

\* requests.post raises (no connection): the call and the cell end there.
PostRaises ==
  /\ pc = "wait"
  /\ outstanding' = outstanding - 1
  /\ calls' = Append(calls, CallRecord("post raised", None))
  /\ tap_params' = None
  /\ pc' = "error"
  /\ UNCHANGED <<registry, returned, cell, query, results, response, astropy_table,
                 sent, out, reruns>>

\* astropy_table = Table.read(io.BytesIO(results.content))
ReadTable ==
  /\ pc = "read"
  /\ CanRead(response.content)
  /\ astropy_table' = TableRead(response.content)
  /\ pc' = "return"
  /\ UNCHANGED <<registry, returned, cell, query, results, tap_params, response,
                 sent, outstanding, out, calls, reruns>>

\* Mutant of ReadRaises: a body that cannot be read gives an empty table.
ReadGivesEmptyTable ==
  /\ pc = "read"
  /\ ~CanRead(response.content)
  /\ astropy_table' = [type |-> "Table", colnames |-> <<>>, rows |-> <<>>]
  /\ pc' = "return"
  /\ UNCHANGED <<registry, returned, cell, query, results, tap_params, response,
                 sent, outstanding, out, calls, reruns>>

\* Table.read raises: the call and the cell end there.
ReadRaises ==
  /\ pc = "read"
  /\ ~CanRead(response.content)
  /\ calls' = Append(calls, CallRecord("read raised", None))
  /\ tap_params' = None
  /\ response' = None
  /\ pc' = "error"
  /\ UNCHANGED <<registry, returned, cell, query, results, astropy_table,
                 sent, outstanding, out, reruns>>

\* return astropy_table: the call ends and its frame with it.
Return ==
  /\ pc = "return"
  /\ returned' = astropy_table
  /\ calls' = Append(calls, CallRecord("returned", astropy_table))
  /\ tap_params' = None
  /\ response' = None
  /\ astropy_table' = None
  /\ pc' = "store"
  /\ UNCHANGED <<registry, cell, query, results, sent, outstanding, out, reruns>>

\* Mutant of StoreResults: a table already held is not overwritten.
StoreResultsOnce ==
  /\ pc = "store"
  /\ results' = IF results = None THEN returned ELSE results
  /\ returned' = None
  /\ pc' = "display"
  /\ UNCHANGED <<registry, cell, query, tap_params, response, astropy_table,
                 sent, outstanding, out, calls, reruns>>

\* results = registry_tap_query(query)
StoreResults ==
  /\ pc = "store"
  /\ results' = returned
  /\ returned' = None
  /\ pc' = "display"
  /\ UNCHANGED <<registry, cell, query, tap_params, response, astropy_table,
                 sent, outstanding, out, calls, reruns>>

\* The rest of the cell: the print loop, or the table as the cell's value.
Display ==
  /\ pc = "display"
  /\ out' = [out EXCEPT ![cell] = CellDisplay(cell, results)]
  /\ pc' = "done"
  /\ UNCHANGED <<registry, returned, cell, query, results, tap_params, response,
                 astropy_table, sent, outstanding, calls, reruns>>

\* Mutant of NextCell: the next cell starts while the request of this one
\* is still unanswered.
NextCellWithoutWaiting ==
  /\ pc \in {"done", "wait"}
  /\ cell < NumCells
  /\ cell' = cell + 1
  /\ pc' = "assign"
  /\ UNCHANGED <<registry, returned, query, results, tap_params, response,
                 astropy_table, sent, outstanding, out, calls, reruns>>

\* The next query cell is executed.
NextCell ==
  /\ pc = "done"
  /\ cell < NumCells
  /\ cell' = cell + 1
  /\ pc' = "assign"
  /\ UNCHANGED <<registry, returned, query, results, tap_params, response,
                 astropy_table, sent, outstanding, out, calls, reruns>>

\* The user executes the same cell again, after its end or its failure.
RerunCell ==
  /\ pc \in {"done", "error"}
  /\ reruns < MaxReruns
  /\ reruns' = reruns + 1
  /\ pc' = "assign"
  /\ UNCHANGED <<registry, returned, cell, query, results, tap_params, response,
                 astropy_table, sent, outstanding, out, calls>>

Next ==
  \/ AssignQuery
  \/ BuildParams
  \/ Post
  \/ Respond
  \/ PostRaises
  \/ ReadTable
  \/ ReadRaises
  \/ Return
  \/ StoreResults
  \/ Display
  \/ NextCell
  \/ RerunCell

Spec == Init /\ [][Next]_vars

(***************************************************************************)
(* Properties.                                                             *)
(***************************************************************************)
\* The finished calls that returned a table.
ReturnedCalls == {i \in 1..Len(calls) : calls[i].outcome = "returned"}

\* The call of registry_tap_query has passed requests.post and not ended.
PastPost == pc \in {"wait", "read", "return"}

\* C1: every request goes to the one synchronous Registry TAP endpoint with
\* exactly the form parameters request='doQuery', lang='ADQL' and query, and
\* the query sent is the caller's argument, character for character.
C1_RequestCarriesQueryUnchanged ==
  /\ \A i \in 1..Len(sent) :
       /\ sent[i].url = "https://vao.stsci.edu/RegTAP/TapService.aspx/sync"
       /\ DOMAIN sent[i].data = {"request", "lang", "query"}
       /\ sent[i].data.request = "doQuery"
       /\ sent[i].data.lang = "ADQL"
       /\ sent[i].data.query \in Range(Queries)
  /\ pc = "wait" => sent[Len(sent)].data.query = query

\* Two calls with different arguments have been posted.
C1_Witness ==
  /\ pc = "wait"
  /\ Len(sent) >= 2
  /\ sent[1].data.query # sent[Len(sent)].data.query
  /\ sent[Len(sent)].data.query = query

\* C2: the requests sent are as many as the calls that reached the POST
\* step: one per call, none re-sent after a failure, none saved by a cache.
C2_OnePostPerCall ==
  Len(sent) = Len(calls) + (IF PastPost THEN 1 ELSE 0)

\* A call failed, and the same query was then sent a second time by a new
\* call.
C2_Witness ==
  /\ \E k \in 1..Len(calls) : calls[k].outcome # "returned"
  /\ \E i, j \in 1..Len(sent) : i < j /\ sent[i] = sent[j]
  /\ Len(sent) = Len(calls)

\* The text of a table's cells, row by row.
TableText(table) ==
  Flatten([k \in 1..Len(table.rows) |->
             [i \in 1..Len(table.rows[k]) |->
                IF "bytes" \in DOMAIN table.rows[k][i]
                THEN table.rows[k][i].bytes
                ELSE IntToText(table.rows[k][i].int)]])

\* The cells of a VOTABLE body, after its TABLEDATA mark.
DataCells(content) ==
  LET at == CHOOSE k \in 1..Len(content) : content[k] = "TABLEDATA"
  IN  [k \in 1..(Len(content) - at) |-> content[at + k]]

\* C3: a returned table holds the cells of the body of that call's own
\* response and nothing else, so calls that received the same bytes returned
\* equal tables.
C3_ResultIsOwnResponseParsed ==
  \A i \in ReturnedCalls :
    /\ TableText(calls[i].returned) = DataCells(calls[i].content)
    /\ \A j \in ReturnedCalls :
         calls[i].content = calls[j].content
           => calls[i].returned = calls[j].returned

\* Two calls with different queries received the same bytes, with rows.
C3_Witness ==
  \E i, j \in ReturnedCalls :
    /\ i < j
    /\ calls[i].query # calls[j].query
    /\ calls[i].content = calls[j].content
    /\ calls[i].returned.rows # <<>>
    /\ calls[i].returned = calls[j].returned

\* Calls with the same argument and the same response returned equal tables.
SameInputsSameResult ==
  \A i, j \in ReturnedCalls :
    (calls[i].query = calls[j].query /\ calls[i].content = calls[j].content)
      => calls[i].returned = calls[j].returned

\* C4: registry_tap_query keeps no state: its steps leave the notebook's
\* variables and displays alone, nothing of its frame is left once the call
\* has ended, and what a call returns is settled by its argument and its
\* response, whatever was called before.
C4_NoPersistentState ==
  [][/\ pc \in {"call", "post", "wait", "read", "return"}
          => (query' = query /\ results' = results /\ out' = out)
     /\ pc' \notin {"post", "wait", "read", "return"}
          => (tap_params' = None /\ response' = None /\ astropy_table' = None)
     /\ SameInputsSameResult']_vars

\* The same query got the same response in two calls, the second made when
\* the notebook already held the first one's table.
C4_Witness ==
  \E i, j \in ReturnedCalls :
    /\ i < j
    /\ calls[i].query = calls[j].query
    /\ calls[i].content = calls[j].content
    /\ calls[i].returned.rows # <<>>
    /\ results = calls[i].returned
    /\ pc = "done"

(***************************************************************************)
(* The registry's content, read without the service: what the tables say   *)
(* and what a reader of a table sees.                                      *)
(***************************************************************************)
\* The table returned by the latest finished call for query text q.
LatestResult(q) ==
  LET of == {i \in ReturnedCalls : calls[i].query = q}
      last == CHOOSE i \in of : \A j \in of : j <= i
  IN  calls[last].returned

\* A table's rows as a reader sees them: text decoded, numbers as numbers.
ShownRows(table) ==
  [k \in 1..Len(table.rows) |->
     [i \in 1..Len(table.rows[k]) |->
        IF "bytes" \in DOMAIN table.rows[k][i]
        THEN table.rows[k][i].bytes
        ELSE table.rows[k][i].int]]

\* A missing value is shown as the empty text.
Shown(v) == IF v = NULL THEN "" ELSE v

\* The (capability, interface) pairs: an interface with its capability.
CapabilityInterfaces(reg) ==
  {<<c, f>> \in Range(reg.capability) \X Range(reg.interface) :
     f.ivoid = c.ivoid /\ f.cap_index = c.cap_index}

\* The (resource, capability, interface) combinations.
Services(reg) ==
  {<<r, c, f>> \in Range(reg.resource) \X Range(reg.capability)
                     \X Range(reg.interface) :
     c.ivoid = r.ivoid /\ f.ivoid = c.ivoid /\ f.cap_index = c.cap_index}

ServiceRow(s) == <<s[1].res_title, s[1].ivoid, s[2].cap_type, s[3].access_url>>

CapabilityRow(p) ==
  <<p[1].cap_index, p[1].cap_type, Shown(p[1].standard_id), p[2].access_url>>

\* word is in text, letter for letter.
HasWord(text, word) ==
  \E i \in 1..Len(Chars(text)) :
    \A k \in 1..Len(Chars(word)) :
      /\ i + k - 1 <= Len(Chars(text))
      /\ Chars(text)[i + k - 1] = Chars(word)[k]

\* word is in text, in any mix of upper and lower case.
HasWordAnyCase(text, word) ==
  \E i \in 1..Len(Chars(text)) :
    \A k \in 1..Len(Chars(word)) :
      /\ i + k - 1 <= Len(Chars(text))
      /\ ToLower(Chars(text)[i + k - 1]) = ToLower(Chars(word)[k])

\* C5: the capability cell shows the capabilities of the resource that the
\* first-resource cell found: the rows are the (capability, interface)
\* pairs whose ivoid is the ivoid of the row the first query returned.
C5_CapabilitiesOfResourceFoundFirst ==
  (cell = 2 /\ pc = "done" /\ LatestResult(FirstResourceQuery).rows # <<>>)
    => Range(ShownRows(results)) =
         {CapabilityRow(p) :
            p \in {q \in CapabilityInterfaces(registry) :
                     q[1].ivoid =
                       ShownRows(LatestResult(FirstResourceQuery))[1][1]}}

\* C6: the first query returns at most one row, and one when rr.resource has
\* rows; for that row the cell shows the six attributes once each in the
\* order of the select list, with the registry's values, and then one
\* separator line.
C6_FirstResourceShownOncePerAttribute ==
  (cell = 1 /\ pc = "done")
    => /\ Len(results.rows) <= 1
       /\ registry.resource # <<>> => Len(results.rows) = 1
       /\ registry.resource = <<>> => out[1] = <<>>
       /\ Len(results.rows) = 1 =>
            /\ Len(out[1]) = 7
            /\ \A i \in 1..6 :
                 out[1][i] =
                   [markdown |->
                      <<"**",
                        <<"ivoid", "content_type", "waveband", "short_name",
                          "res_title", "res_description">>[i],
                        "**: ",
                        Shown(registry.resource[1][
                          <<"ivoid", "content_type", "waveband", "short_name",
                            "res_title", "res_description">>[i]])>>]
            /\ out[1][7] = [stdout |-> Separator]

\* The first resource, one without short_name, has been shown.
C6_Witness ==
  /\ cell = 1
  /\ pc = "done"
  /\ Len(registry.resource) = 2
  /\ registry.resource[1].short_name = NULL
  /\ Len(out[1]) = 7
  /\ out[1][1] = [markdown |-> <<"**", "ivoid", "**: ", registry.resource[1].ivoid>>]

\* C7 as stated: the Chandra cell's rows are the combinations whose cap_type
\* is 'simpleimageaccess' and whose title contains 'Chandra', and only they.
C7_RowsAreTitlesContainingChandra ==
  (cell = 3 /\ pc = "done")
    => Range(ShownRows(results)) =
         {ServiceRow(s) :
            s \in {v \in Services(registry) :
                     /\ v[2].cap_type = "simpleimageaccess"
                     /\ HasWord(v[1].res_title, "Chandra")}}

\* C7, amended: the Chandra cell's rows are the combinations whose cap_type
\* is 'simpleimageaccess' and whose title contains 'chandra' in any letter
\* case, one row for each and no other row.
C7_RowsAreTitlesContainingChandraInAnyCase ==
  (cell = 3 /\ pc = "done")
    => LET match == {v \in Services(registry) :
                       /\ v[2].cap_type = "simpleimageaccess"
                       /\ HasWordAnyCase(v[1].res_title, "chandra")}
       IN  /\ Range(ShownRows(results)) = {ServiceRow(s) : s \in match}
           /\ Len(results.rows) = Cardinality(match)

\* A capitalised and a lower-case title are both among the rows, and a
\* combination of another cap_type is not.
C7_Witness ==
  /\ cell = 3
  /\ pc = "done"
  /\ \E k \in 1..Len(results.rows) :
       ShownRows(results)[k][1] = "Chandra Source Catalog"
  /\ \E k \in 1..Len(results.rows) :
       ShownRows(results)[k][1] = "chandra deep field south"
  /\ Len(results.rows) < Cardinality(Services(registry))

\* C8: the Harvard cell's table is the Chandra cell's table, from the same
\* registry, cut down to the rows whose ivoid contains 'harvard'.
C8_HarvardNarrowsChandra ==
  (cell = 4 /\ pc = "done")
    => ShownRows(results) =
         SelectSeq(ShownRows(LatestResult(ChandraQuery)),
                   LAMBDA row : HasWord(row[2], "harvard"))

\* The Harvard cell kept some rows of the Chandra cell and dropped others.
C8_Witness ==
  /\ cell = 4
  /\ pc = "done"
  /\ results.rows # <<>>
  /\ Len(results.rows) < Len(LatestResult(ChandraQuery).rows)

RECURSIVE SumCounts(_)
SumCounts(rows) ==
  IF rows = <<>> THEN 0 ELSE Head(rows)[2] + SumCounts(Tail(rows))

\* The waveband cell's rows are in strictly ascending waveband order.
WavebandsAscend(rows) ==
  \A k \in 1..(Len(rows) - 1) :
    LexLess(Chars(rows[k][1]), Chars(rows[k + 1][1]))

\* C9 as stated: one row for each waveband value of rr.resource, ascending,
\* each with the number of resources having that value, so that the counts
\* add up to the number of resources.
C9_CountsAreResourcesPerWaveband ==
  (cell = 5 /\ pc = "done")
    => LET rows == ShownRows(results)
           res == registry.resource
       IN  /\ Len(rows) = Cardinality({res[k].waveband : k \in 1..Len(res)})
           /\ {rows[k][1] : k \in 1..Len(rows)} =
                {Shown(res[k].waveband) : k \in 1..Len(res)}
           /\ WavebandsAscend(rows)
           /\ \A k \in 1..Len(rows) :
                rows[k][2] =
                  Cardinality({n \in 1..Len(res) :
                                 Shown(res[n].waveband) = rows[k][1]})
           /\ SumCounts(rows) = Len(res)

\* C9, amended: one row for each waveband value of rr.resource, ascending,
\* the resources without waveband making one row with an empty waveband; a
\* row's count is the number of resources that have its waveband, which is
\* 0 for the row of the resources without one, so that the counts add up to
\* the number of resources that have a waveband.
C9_CountsAreResourcesWithThatWaveband ==
  (cell = 5 /\ pc = "done")
    => LET rows == ShownRows(results)
           res == registry.resource
       IN  /\ Len(rows) = Cardinality({res[k].waveband : k \in 1..Len(res)})
           /\ {rows[k][1] : k \in 1..Len(rows)} =
                {Shown(res[k].waveband) : k \in 1..Len(res)}
           /\ WavebandsAscend(rows)
           /\ \A k \in 1..Len(rows) :
                rows[k][2] =
                  Cardinality({n \in 1..Len(res) :
                                 /\ res[n].waveband # NULL
                                 /\ res[n].waveband = rows[k][1]})
           /\ SumCounts(rows) =
                Cardinality({n \in 1..Len(res) : res[n].waveband # NULL})

\* The table has the row of a resource without waveband, with count 0, and
\* then a waveband's row.
C9_Witness ==
  /\ cell = 5
  /\ pc = "done"
  /\ Len(results.rows) = 2
  /\ ShownRows(results)[1] = <<"", 0>>
  /\ ShownRows(results)[2][2] = 1

\* C10: the capability cell's rows are the (capability, interface) pairs of
\* the resource it names, one row for each pair with that interface's
\* access_url, and no row of another resource.
C10_OneRowPerCapabilityInterface ==
  (cell = 2 /\ pc = "done")
    => LET pairs == {p \in CapabilityInterfaces(registry) :
                       p[1].ivoid = "ivo://cxc.harvard.edu/csc"}
       IN  /\ Range(ShownRows(results)) = {CapabilityRow(p) : p \in pairs}
           /\ Len(results.rows) = Cardinality(pairs)

\* The resource has two capabilities, one of them with two interfaces; the
\* registry holds another resource's interface; three rows are shown.
C10_Witness ==
  /\ cell = 2
  /\ pc = "done"
  /\ Len(results.rows) = 3
  /\ \E k \in 1..Len(registry.interface) :
       registry.interface[k].ivoid # "ivo://cxc.harvard.edu/csc"
  /\ \E k \in 1..Len(registry.resource) :
       registry.resource[k].ivoid = "ivo://cxc.harvard.edu/csc"

\* C11: the UV/STScI cell's rows are the (resource, capability, interface)
\* combinations whose cap_type is 'simpleimageaccess', whose waveband
\* contains 'uv' and whose ivoid contains 'stsci': one row for each, and no
\* other row.
C11_RowsAreUvImageServicesOfStsci ==
  (cell = 6 /\ pc = "done")
    => LET match == {v \in Services(registry) :
                       /\ v[2].cap_type = "simpleimageaccess"
                       /\ v[1].waveband # NULL
                       /\ HasWord(v[1].waveband, "uv")
                       /\ HasWord(v[1].ivoid, "stsci")}
       IN  /\ Range(ShownRows(results)) = {ServiceRow(s) : s \in match}
           /\ Len(results.rows) = Cardinality(match)

\* The UV image service of STScI is the one row shown; the registry also
\* holds a UV image service that is not at STScI.
C11_Witness ==
  /\ cell = 6
  /\ pc = "done"
  /\ Len(results.rows) = 1
  /\ ShownRows(results)[1][2] = "ivo://mast.stsci/siap/uit"
  /\ \E s \in Services(registry) :
       /\ s[2].cap_type = "simpleimageaccess"
       /\ s[1].waveband = "uv"
       /\ ~HasWord(s[1].ivoid, "stsci")

\* The calls that ended in a failure.
FailedCalls == {i \in 1..Len(calls) : calls[i].outcome # "returned"}

\* C12: a call whose POST raises, or whose response body cannot be read as
\* a VOTABLE, ends there: it returns no table, no request follows the
\* failure until a cell is executed again, and the notebook's results,
\* query and displays are what they were before the call failed.
C12_FailureEndsCallWithoutTable ==
  [][/\ (pc \in {"wait", "read"} /\ pc' = "error")
          => /\ results' = results
             /\ query' = query
             /\ out' = out
             /\ sent' = sent
             /\ returned' = None
             /\ astropy_table' = None
             /\ Len(calls') = Len(calls) + 1
             /\ Len(calls') \in FailedCalls'
     /\ pc = "error" => (sent' = sent /\ results' = results /\ calls' = calls)
     /\ (pc = "read" /\ ~CanRead(response.content)) => pc' = "error"
     /\ \A i \in 1..Len(calls') :
          /\ i \in FailedCalls' => calls'[i].returned = None
          /\ ~CanRead(calls'[i].content) => i \in FailedCalls']_vars

\* After a cell left a table with rows in results, a call failed in
\* requests.post and the next one in Table.read; results still holds that
\* table.
C12_Witness ==
  /\ pc = "error"
  /\ results # None
  /\ results.rows # <<>>
  /\ Len(calls) >= 3
  /\ calls[Len(calls) - 1].outcome = "post raised"
  /\ calls[Len(calls)].outcome = "read raised"
  /\ results = calls[Len(calls) - 2].returned
  /\ Len(sent) = Len(calls)

\* The cell whose query text is q.
CellOf(q) == CHOOSE c \in 1..NumCells : Queries[c] = q

\* C13: the cells run one after another and each call blocks: a request is
\* outstanding only while its call waits in requests.post, so never two at
\* once; the requests were sent in the order of their cells; and a cell has
\* nothing displayed until its own query has returned, the display coming
\* with no request outstanding.
C13_OneRequestAtATimeInCellOrder ==
  /\ outstanding \in {0, 1}
  /\ outstanding = 1 <=> pc = "wait"
  /\ \A i, j \in 1..Len(sent) :
       i < j => CellOf(sent[i].data.query) <= CellOf(sent[j].data.query)
  /\ \A i \in 1..Len(sent) : CellOf(sent[i].data.query) <= cell
  /\ pc \in {"assign", "call", "post"} => Len(sent) = Len(calls)
  /\ pc \in {"call", "post", "wait", "read", "return", "store", "error"}
       => out[cell] = <<>>
  /\ \A c \in (cell + 1)..NumCells : out[c] = <<>>
  /\ pc \in {"display", "done"}
       => /\ Len(calls) >= 1
          /\ calls[Len(calls)].outcome = "returned"
          /\ calls[Len(calls)].query = Queries[cell]
          /\ Len(sent) = Len(calls)
          /\ sent[Len(sent)].data.query = Queries[cell]

\* The third cell waits for its answer, the only request outstanding; the
\* two cells before it have displayed their tables and it has not.
C13_Witness ==
  /\ cell = 3
  /\ pc = "wait"
  /\ outstanding = 1
  /\ Len(sent) = 3
  /\ Len(calls) = 2
  /\ out[1] # <<>>
  /\ out[2] # <<>>
  /\ out[3] = <<>>

\* The table the service's answer to query text q reads as.
AnswerTable(q) == TableRead(VOTableDocument(EvalQuery(q, registry)))

\* C14: query and results are what the notebook carries from cell to cell,
\* and every query cell overwrites them: once a cell has run, query is that
\* cell's text and results is the table returned for it, the latest call's;
\* before that, results is still the table of the latest call that
\* returned.  The table a cell displays is the service's answer to the
\* cell's own query, and what a cell has displayed is the table returned for
\* its own query.
C14_CellShowsItsOwnQuerysResult ==
  /\ pc # "assign" => query = Queries[cell]
  /\ pc \in {"display", "done"}
       => /\ results = calls[Len(calls)].returned
          /\ calls[Len(calls)].query = query
  /\ pc = "display" => results = AnswerTable(Queries[cell])
  /\ pc \notin {"store", "display", "done"}
       => results = (IF ReturnedCalls = {} THEN None
                     ELSE calls[CHOOSE i \in ReturnedCalls :
                                  \A j \in ReturnedCalls : j <= i].returned)
  /\ pc = "done" => out[cell] = CellDisplay(cell, results)
  /\ \A c \in 1..NumCells :
       out[c] # <<>>
         => out[c] = CellDisplay(c, LatestResult(Queries[c]))

\* The waveband cell has run and shows its own table, which results now
\* holds; the capability cell still shows its own, a different table with
\* rows.
C14_Witness ==
  /\ cell = 5
  /\ pc = "done"
  /\ query = WavebandQuery
  /\ results.rows # <<>>
  /\ out[5] = <<[execute_result |-> results]>>
  /\ out[2] = <<[execute_result |-> LatestResult(CapabilityQuery)]>>
  /\ LatestResult(CapabilityQuery).rows # <<>>
  /\ LatestResult(CapabilityQuery) # results

====
